---- MODULE Spec2Model ----
(***************************************************************************)
(* DFPWM1a encoder of src/main.py: the DFPWMCodec class (predictor state,  *)
(* context update, bit packing) and the conversion worker that feeds it    *)
(* chunk by chunk.                                                         *)
(***************************************************************************)
EXTENDS Integers, Sequences, FiniteSets, TLC

VARIABLES
    codec,      \* the DFPWMCodec object: its fields
    src,        \* the decoded PCM stream: the pattern of bytes it repeats
    pos,        \* bytes of the stream already handed to the codec
    before,     \* the codec as the latest call found it
    pcm,        \* the buffer the latest call was given
    dfpwm,      \* the bytes the latest call returned
    outs,       \* the bytes all the calls returned, in order
    ragged,     \* a call before the latest was given a length not a multiple of 8
    ncalls,     \* the calls made on codec
    pc,         \* where the call stepped sample by sample stands
    l_idx,      \* the local idx of the stepped call
    l_d,        \* its local d, the byte being packed
    l_out,      \* its local out, the bytes appended so far
    l_b,        \* its local b, the input byte read last
    l_curbit,   \* its local curbit, the bit decided last
    npass,      \* passes of the for loop made for the byte being packed
    bits,       \* the bits decided for the byte being packed, oldest first
    wpc,        \* where the conversion worker thread stands
    sample_rate,    \* sample_rate of _convert_worker
    chunk_seconds,  \* chunk_seconds of _convert_worker
    decode,     \* how the decode step ended: "none" until it has
    pcm_chunks, \* pcm_chunks of _convert_worker
    total,      \* total of _convert_worker
    i,          \* i of the worker's loop
    e,          \* e of the worker's except clause, "unbound" when it has no value
    nconstructed,   \* DFPWMCodec objects the worker constructed
    files,      \* the files of out_dir: chunk index -> bytes
    wlog,       \* the chunk indexes in the order their files were written
    uiq,        \* the callbacks handed to root.after, not yet run
    status_var, \* the status line of the window
    progress_var,   \* the progress bar: << numerator, denominator >> of the percentage
    dialogs,    \* the error dialogs shown
    mp3_path,   \* mp3_path of the latest convert_clicked, a sequence of characters
    nclicks,    \* the times convert_clicked was invoked
    runs,       \* the worker threads the window started, each with its locals
    twin        \* a second DFPWMCodec object, with the buffers and bytes of both

callVars == << src, pos, pcm, dfpwm, outs, ragged, ncalls >>
stepVars == << pc, l_idx, l_d, l_out, l_b, l_curbit, npass, bits >>
workerVars == << wpc, sample_rate, chunk_seconds, decode, pcm_chunks, total, i, e,
                 nconstructed, files, wlog >>
uiVars == << uiq, status_var, progress_var, dialogs >>
appVars == << mp3_path, nclicks, runs, twin >>
runVars == << workerVars, uiVars, appVars >>
vars == << codec, before, callVars, stepVars, runVars >>

(***************************************************************************)
(* Bounds of the model.                                                    *)
(***************************************************************************)
\* longest buffer handed to one compress_pcm_s8_to_dfpwm call under Spec
MaxLen == 16
\* most calls made on one codec under Spec
MaxCalls == 2
\* period of the sample pattern the source stream repeats
PatLen == 3
\* most bytes the decoder returns under SpecRun
MaxPcm == 24

(***************************************************************************)
(* Program constants.                                                      *)
(***************************************************************************)
RESP_INC_NEW == 1
RESP_DEC_NEW == 1
RESP_PREC_NEW == 10
RESP_INC_OLD == 7
RESP_DEC_OLD == 20
RESP_PREC_OLD == 8
LEVEL_MAX == 127
LEVEL_MIN == -128

(***************************************************************************)
(* Integer helpers: Python's << and >> on unbounded ints.                  *)
(***************************************************************************)
\* x << n
Shl(x, n) == x * (2 ^ n)

\* x >> n on a two's complement integer: the bits of a negative x are those
\* of ~x = -x-1 inverted, so x >> n = ~((~x) >> n).
Shr(x, n) ==
    IF x >= 0 THEN x \div (2 ^ n)
    ELSE -(((-x) - 1) \div (2 ^ n)) - 1

\* x & 0xFF
And255(x) == x % 256

(***************************************************************************)
(* DFPWMCodec                                                              *)
(***************************************************************************)
\* DFPWMCodec.__post_init__: the object a constructor call leaves.
PostInit(newdfpwm) ==
    [ newdfpwm  |-> newdfpwm,
      dfpwm_old |-> ~newdfpwm,
      RESP_INC  |-> IF newdfpwm THEN RESP_INC_NEW ELSE RESP_INC_OLD,
      RESP_DEC  |-> IF newdfpwm THEN RESP_DEC_NEW ELSE RESP_DEC_OLD,
      RESP_PREC |-> IF newdfpwm THEN RESP_PREC_NEW ELSE RESP_PREC_OLD,
      response  |-> 0,
      level     |-> 0,
      lastbit   |-> FALSE ]

\* target of _ctx_update
Target(curbit) == IF curbit THEN LEVEL_MAX ELSE LEVEL_MIN

\* (a shift that rounds toward zero)
ShrTowardZero(x, n) ==
    IF x >= 0 THEN x \div (2 ^ n) ELSE -((-x) \div (2 ^ n))

\* (a level update that rounds toward zero)
NLevelTowardZero(self, curbit) ==
    LET target == Target(curbit)
        nlevel == self.level
                  + ShrTowardZero(self.response * (target - self.level)
                                  + Shl(1, self.RESP_PREC - 1), self.RESP_PREC)
    IN  IF nlevel = self.level /\ self.level # target
        THEN nlevel + (IF curbit THEN 1 ELSE -1)
        ELSE nlevel

\* (a level update without the move of one)
NLevelNoNudge(self, curbit) ==
    self.level + Shr(self.response * (Target(curbit) - self.level)
                     + Shl(1, self.RESP_PREC - 1), self.RESP_PREC)

\* (a level update that rounds up instead of to the nearest)
NLevelRoundsUp(self, curbit) ==
    LET target == Target(curbit)
        nlevel == self.level
                  + Shr(self.response * (target - self.level)
                        + Shl(1, self.RESP_PREC), self.RESP_PREC)
    IN  IF nlevel = self.level /\ self.level # target
        THEN nlevel + (IF curbit THEN 1 ELSE -1)
        ELSE nlevel

\* nlevel of _ctx_update
NLevel(self, curbit) ==
    LET target == Target(curbit)
        nlevel == self.level
                  + Shr(self.response * (target - self.level)
                        + Shl(1, self.RESP_PREC - 1), self.RESP_PREC)
    IN  IF nlevel = self.level /\ self.level # target
        THEN nlevel + (IF curbit THEN 1 ELSE -1)
        ELSE nlevel

\* (a response target one too high)
RTargetOver(self, curbit) ==
    IF curbit = self.lastbit THEN Shl(1, self.RESP_PREC) ELSE 0

\* rtarget of _ctx_update
RTarget(self, curbit) ==
    IF curbit = self.lastbit THEN Shl(1, self.RESP_PREC) - 1 ELSE 0

\* (the increment and the decrement taken for each other)
RDeltaSwapped(self, curbit) ==
    IF curbit = self.lastbit THEN self.RESP_DEC ELSE self.RESP_INC

\* rdelta of _ctx_update
RDelta(self, curbit) ==
    IF curbit = self.lastbit THEN self.RESP_INC ELSE self.RESP_DEC

\* a context update that leaves response alone unless the mode adapts it
NResponseStepOnlyAdapts(self, curbit) ==
    IF self.dfpwm_old
    THEN LET rtarget == RTarget(self, curbit)
             nresponse == self.response
                 + Shr(RDelta(self, curbit) * (rtarget - self.response) + 128, 8)
         IN  IF nresponse = self.response /\ self.response # rtarget
             THEN nresponse + (IF curbit = self.lastbit THEN 1 ELSE -1)
             ELSE nresponse
    ELSE self.response

\* nresponse of _ctx_update before the floor clamp
NResponseStep(self, curbit) ==
    LET rtarget == RTarget(self, curbit)
        rdelta  == RDelta(self, curbit)
        nresponse ==
            IF self.dfpwm_old
            THEN self.response + Shr(rdelta * (rtarget - self.response) + 128, 8)
            ELSE self.response
    IN  IF nresponse = self.response /\ self.response # rtarget
        THEN nresponse + (IF curbit = self.lastbit THEN 1 ELSE -1)
        ELSE nresponse

\* a floor clamp that never applies
ClampResponseOff(self, nresponse) == nresponse

\* the floor clamp of _ctx_update
ClampResponse(self, nresponse) ==
    IF self.RESP_PREC > 8
    THEN LET min_resp == Shl(2, self.RESP_PREC - 8)
         IN  IF nresponse < min_resp THEN min_resp ELSE nresponse
    ELSE nresponse

\* a context update that does not commit the new level
CtxUpdateKeepsLevel(self, curbit) ==
    [ self EXCEPT !.response = ClampResponse(self, NResponseStep(self, curbit)),
                  !.lastbit  = curbit ]

\* DFPWMCodec._ctx_update
CtxUpdate(self, curbit) ==
    [ self EXCEPT !.response = ClampResponse(self, NResponseStep(self, curbit)),
                  !.lastbit  = curbit,
                  !.level    = NLevel(self, curbit) ]

\* inlevel: the signed value of the input byte b
InLevel(b) == IF b > 127 THEN b - 256 ELSE b

\* a decision without the tie-break at the ceiling
CurBitNoTie(inlevel, level) == inlevel > level

\* a decision that resolves every tie to true
CurBitTiesTrue(inlevel, level) == inlevel >= level

\* curbit of compress_pcm_s8_to_dfpwm
CurBit(inlevel, level) ==
    (inlevel > level) \/ (inlevel = level /\ level = LEVEL_MAX)

\* a packing that shifts the other way: the first-decided bit ends highest
PackMsbFirst(d, curbit) == d * 2 + (IF curbit THEN 1 ELSE 0)

\* d after one more decided bit
Pack(d, curbit) == Shr(d, 1) + (IF curbit THEN 128 ELSE 0)

\* the number of whole groups taken for the number of samples in them
WholeLenAsBytes(pcm_s8) == Len(pcm_s8) \div 8

\* n of compress_pcm_s8_to_dfpwm: the length rounded down to whole groups
WholeLen(pcm_s8) == Len(pcm_s8) - (Len(pcm_s8) % 8)

\* one pass of the body of the for loop: the codec and d after sample b
SampleStep(st, b) ==
    LET curbit == CurBit(InLevel(b), st.self.level)
    IN  [ self |-> CtxUpdate(st.self, curbit), d |-> Pack(st.d, curbit) ]

\* the for loop: the passes k..7 over pcm_s8 from 0-based index idx on.
\* (nx \in {e} binds nx to the value of e, computed once.)
RECURSIVE ForLoop(_, _, _, _)
ForLoop(st, pcm_s8, idx, k) ==
    IF k = 8 THEN st
    ELSE CHOOSE r \in { ForLoop(nx, pcm_s8, idx + 1, k + 1) :
                          nx \in { SampleStep(st, pcm_s8[idx + 1]) } } : TRUE

\* the while loop from 0-based index idx on, out being the bytes appended
\* so far
RECURSIVE WhileLoop(_, _, _, _)
WhileLoop(self, pcm_s8, idx, out) ==
    IF idx < WholeLen(pcm_s8)
    THEN CHOOSE r \in
             { WhileLoop(st.self, pcm_s8, idx + 8, Append(out, And255(st.d))) :
                 st \in { ForLoop([self |-> self, d |-> 0], pcm_s8, idx, 0) } } :
             TRUE
    ELSE [ self |-> self, out |-> out ]

\* (the samples from 0-based index idx on fed to the predictor, no byte
\* being packed)
RECURSIVE FeedRest(_, _, _)
FeedRest(self, pcm_s8, idx) ==
    IF idx < Len(pcm_s8)
    THEN CHOOSE r \in
             { FeedRest(st.self, pcm_s8, idx + 1) :
                 st \in { SampleStep([self |-> self, d |-> 0], pcm_s8[idx + 1]) } } :
             TRUE
    ELSE self

\* (a call that feeds the samples after the last whole group to the
\* predictor)
CompressFeedsRest(self, pcm_s8) ==
    CHOOSE res \in
        { [ self |-> FeedRest(r.self, pcm_s8, WholeLen(pcm_s8)), out |-> r.out ] :
            r \in { WhileLoop(self, pcm_s8, 0, << >>) } } : TRUE

\* a call that starts from the state of a new codec
CompressReset(self, pcm_s8) == WhileLoop(PostInit(self.newdfpwm), pcm_s8, 0, << >>)

\* DFPWMCodec.compress_pcm_s8_to_dfpwm: the codec it leaves and the bytes
\* it returns
Compress(self, pcm_s8) == WhileLoop(self, pcm_s8, 0, << >>)

(***************************************************************************)
(* The PCM stream and the buffers cut from it.                             *)
(***************************************************************************)
\* byte values close to the level of a fresh codec (0 and -3 as raw bytes),
\* so that the decisions depend on the state the codec carries
Bytes == {0, 253}

\* byte values at the ends and the middle of the range: 0, 127, -128
EdgeBytes == {0, 127, 128}

\* the streams over the byte values S: a pattern of PatLen bytes, repeated
Sources(S) == [1..PatLen -> S]

\* byte i (0-based) of the stream
StreamAt(s, at) == s[(at % PatLen) + 1]

\* pcm[i:i + n] of the stream
Slice(s, at, n) == [j \in 1..n |-> StreamAt(s, at + j - 1)]

\* the codec after a long run of 127 (top) or of -128: level at the end of
\* the range, response at its ceiling
Settled(newdfpwm, top) ==
    [ PostInit(newdfpwm) EXCEPT
        !.level    = IF top THEN LEVEL_MAX ELSE LEVEL_MIN,
        !.response = Shl(1, IF newdfpwm THEN RESP_PREC_NEW ELSE RESP_PREC_OLD) - 1,
        !.lastbit  = top ]

\* the variables of the call stepped sample by sample, at rest
StepIdle ==
    /\ pc = "idle"
    /\ l_idx = 0
    /\ l_d = 0
    /\ npass = 0
    /\ l_out = << >>
    /\ l_b = 0
    /\ l_curbit = FALSE
    /\ bits = << >>

\* what the status line shows: a text, and for "Encoding chunk i/t" the two
\* numbers in it
Status(text, n, t) == [ text |-> text, i |-> n, t |-> t ]

\* the variables of the conversion run, at rest
RunIdle ==
    /\ wpc = "idle"
    /\ sample_rate = 0
    /\ chunk_seconds = 0
    /\ decode = "none"
    /\ pcm_chunks = << >>
    /\ total = 0
    /\ i = 0
    /\ e = "unbound"
    /\ nconstructed = 0
    /\ files = << >>
    /\ wlog = << >>
    /\ uiq = << >>
    /\ status_var = Status("Drop an MP3 here, or click Browse.", 0, 0)
    /\ progress_var = << 0, 1 >>
    /\ dialogs = << >>

\* no second codec, and no call made
NoTwin == [ codec |-> << >>, fed |-> << >>, first |-> << >>, second |-> << >> ]

\* the variables of the window with several runs and the second codec, at
\* rest
AppIdle ==
    /\ mp3_path = << >>
    /\ nclicks = 0
    /\ runs = << >>
    /\ twin = NoTwin

(***************************************************************************)
(* Spec: one codec, called on consecutive buffers of a stream.             *)
(***************************************************************************)
Init ==
    /\ \E newdfpwm \in BOOLEAN : codec = PostInit(newdfpwm)
    /\ src \in Sources(Bytes)
    /\ pos = 0
    /\ before = codec
    /\ pcm = << >>
    /\ dfpwm = << >>
    /\ outs = << >>
    /\ ragged = FALSE
    /\ ncalls = 0
    /\ StepIdle
    /\ RunIdle
    /\ AppIdle

\* (a call that encodes buf with a codec constructed for it)
CallFresh(buf) ==
    \E r \in { Compress(PostInit(codec.newdfpwm), buf) } :
        /\ before' = codec
        /\ codec' = r.self
        /\ pcm' = buf
        /\ dfpwm' = r.out

\* dfpwm = codec.compress_pcm_s8_to_dfpwm(buf)
Call(buf) ==
    \E r \in { Compress(codec, buf) } :
        /\ before' = codec
        /\ codec' = r.self
        /\ pcm' = buf
        /\ dfpwm' = r.out

\* the call on the next n bytes of the stream
Encode(n) ==
    /\ ncalls < MaxCalls
    /\ \E buf \in { Slice(src, pos, n) } : Call(buf)
    /\ ncalls' = ncalls + 1
    /\ pos' = pos + n
    /\ outs' = outs \o dfpwm'
    /\ ragged' = (ragged \/ Len(pcm) % 8 # 0)
    /\ UNCHANGED << src, stepVars, runVars >>

Next == \E n \in 0..MaxLen : Encode(n)

Spec == Init /\ [][Next]_vars

(***************************************************************************)
(* SpecCtx: the context update alone, on every bit, from a fresh codec.    *)
(***************************************************************************)
InitCtx ==
    /\ \E newdfpwm \in BOOLEAN : codec = PostInit(newdfpwm)
    /\ src = [j \in 1..PatLen |-> 0]
    /\ pos = 0
    /\ before = codec
    /\ pcm = << >>
    /\ dfpwm = << >>
    /\ outs = << >>
    /\ ragged = FALSE
    /\ ncalls = 0
    /\ StepIdle
    /\ RunIdle
    /\ AppIdle

\* codec._ctx_update(bit)
CtxUpdateCall(bit) ==
    /\ codec' = CtxUpdate(codec, bit)
    /\ UNCHANGED << before, callVars, stepVars, runVars >>

NextCtx == \E bit \in BOOLEAN : CtxUpdateCall(bit)

SpecCtx == InitCtx /\ [][NextCtx]_vars

(***************************************************************************)
(* SpecStep: one call of compress_pcm_s8_to_dfpwm, a sample at a time, on  *)
(* a fresh codec or on one a long constant input has settled.              *)
(***************************************************************************)
InitStep ==
    /\ \E newdfpwm \in BOOLEAN :
          codec \in { PostInit(newdfpwm), Settled(newdfpwm, TRUE),
                      Settled(newdfpwm, FALSE) }
    /\ src \in Sources(EdgeBytes)
    /\ \E n \in 0..MaxLen : pcm = Slice(src, 0, n)
    /\ pos = 0
    /\ before = codec
    /\ dfpwm = << >>
    /\ outs = << >>
    /\ ragged = FALSE
    /\ ncalls = 0
    /\ pc = "while"
    /\ l_idx = 0
    /\ l_d = 0
    /\ npass = 0
    /\ l_out = << >>
    /\ l_b = 0
    /\ l_curbit = FALSE
    /\ bits = << >>
    /\ RunIdle
    /\ AppIdle

\* while idx < n: d = 0, and into the for loop
WhileEnter ==
    /\ pc = "while"
    /\ l_idx < WholeLen(pcm)
    /\ l_d' = 0
    /\ npass' = 0
    /\ bits' = << >>
    /\ pc' = "for"
    /\ UNCHANGED << codec, before, callVars, runVars, l_idx, l_out, l_b,
                    l_curbit >>

\* one pass of the for loop
ForBody ==
    /\ pc = "for"
    /\ npass < 8
    /\ LET st == SampleStep([self |-> codec, d |-> l_d], pcm[l_idx + 1])
       IN  /\ l_b' = pcm[l_idx + 1]
           /\ l_idx' = l_idx + 1
           /\ l_curbit' = CurBit(InLevel(pcm[l_idx + 1]), codec.level)
           /\ l_d' = st.d
           /\ before' = codec
           /\ codec' = st.self
    /\ bits' = Append(bits, l_curbit')
    /\ npass' = npass + 1
    /\ UNCHANGED << callVars, runVars, pc, l_out >>

\* out.append(d & 0xFF)
AppendByte ==
    /\ pc = "for"
    /\ npass = 8
    /\ l_out' = Append(l_out, And255(l_d))
    /\ pc' = "while"
    /\ UNCHANGED << codec, before, callVars, runVars, l_idx, l_d, npass, l_b,
                    l_curbit, bits >>

\* return bytes(out)
Return ==
    /\ pc = "while"
    /\ ~(l_idx < WholeLen(pcm))
    /\ dfpwm' = l_out
    /\ pc' = "done"
    /\ UNCHANGED << codec, before, src, pos, pcm, outs, ragged, ncalls, runVars,
                    l_idx, l_d, npass, l_out, l_b, l_curbit, bits >>

NextStep == WhileEnter \/ ForBody \/ AppendByte \/ Return

SpecStep == InitStep /\ [][NextStep]_vars

(***************************************************************************)
(* SpecConst: a constant input, buffer after buffer, for ever.             *)
(***************************************************************************)
InitConst ==
    /\ \E newdfpwm \in BOOLEAN : codec = PostInit(newdfpwm)
    /\ \E c \in {127, 128} : src = [j \in 1..PatLen |-> c]
    /\ pos = 0
    /\ before = codec
    /\ pcm = << >>
    /\ dfpwm = << >>
    /\ outs = << >>
    /\ ragged = FALSE
    /\ ncalls = 0
    /\ StepIdle
    /\ RunIdle
    /\ AppIdle

\* the call on the next n bytes of the constant stream
EncodeConst(n) ==
    /\ \E buf \in { Slice(src, 0, n) } : Call(buf)
    /\ UNCHANGED << src, pos, outs, ragged, ncalls, stepVars, runVars >>

\* a buffer too short to hold a group of 8 samples
EncodeShort == EncodeConst(7)

\* a buffer that holds at least one group of 8 samples: the shortest, or
\* the longest of the model
EncodeGroups == \E n \in {8, MaxLen} : EncodeConst(n)

NextConst == EncodeShort \/ EncodeGroups

\* the input does not end: a buffer with a whole group keeps coming
SpecConst == InitConst /\ [][NextConst]_vars /\ WF_vars(EncodeGroups)

(***************************************************************************)
(* SpecRun: one conversion run. The worker thread of _convert_worker       *)
(* decodes, encodes and writes chunk after chunk and hands callbacks to    *)
(* the window's event loop, which runs them later in its own thread.       *)
(***************************************************************************)
\* the sample rates and chunk durations of the runs: the window offers
\* 8000..96000 Hz and 5..600 s, scaled down here so that chunk_size is one
\* group of 8 samples (8), a group and a remainder (12), or two groups and
\* a remainder (18)
SampleRates == {4, 6}
ChunkSeconds == {2, 3}

\* [pcm[i:i + chunk_size] for i in range(0, len(pcm), chunk_size)]
Chunks(raw, chunk_size) ==
    [ j \in 1..((Len(raw) + chunk_size - 1) \div chunk_size) |->
        SubSeq(raw, (j - 1) * chunk_size + 1,
               IF j * chunk_size < Len(raw) THEN j * chunk_size ELSE Len(raw)) ]

\* a callback handed to the event loop: its kind, the status it sets and the
\* progress p (a fraction << numerator, denominator >>) it sets
Callback(kind, status, p) == [ kind |-> kind, status |-> status, p |-> p ]

\* self._ui(fn): root.after(0, fn)
Ui(fn) == uiq' = Append(uiq, fn)

\* convert_clicked has reset the progress bar, set the status line to
\* Working and started the worker
InitRun ==
    /\ codec = PostInit(TRUE)
    /\ src \in Sources(Bytes)
    /\ pos = 0
    /\ before = codec
    /\ pcm = << >>
    /\ dfpwm = << >>
    /\ outs = << >>
    /\ ragged = FALSE
    /\ ncalls = 0
    /\ StepIdle
    /\ wpc = "start"
    /\ sample_rate \in SampleRates
    /\ chunk_seconds \in ChunkSeconds
    /\ decode = "none"
    /\ pcm_chunks = << >>
    /\ total = 0
    /\ i = 0
    /\ e = "unbound"
    /\ nconstructed = 0
    /\ files = << >>
    /\ wlog = << >>
    /\ uiq = << >>
    /\ status_var = Status("Working...", 0, 0)
    /\ progress_var = << 0, 1 >>
    /\ dialogs = << >>
    /\ AppIdle

\* safe_mkdir(out_dir) succeeds; the status line is asked to say Decoding
Mkdir ==
    /\ wpc = "start"
    /\ Ui(Callback("status", Status("Decoding + splitting...", 0, 0), << 0, 1 >>))
    /\ wpc' = "decode"
    /\ UNCHANGED << codec, before, callVars, stepVars, appVars, sample_rate, chunk_seconds,
                    decode, pcm_chunks, total, i, e, nconstructed, files, wlog,
                    status_var, progress_var, dialogs >>

\* safe_mkdir(out_dir) raises
MkdirFail ==
    /\ wpc = "start"
    /\ e' = "OSError"
    /\ wpc' = "except"
    /\ UNCHANGED << codec, before, callVars, stepVars, appVars, sample_rate, chunk_seconds,
                    decode, pcm_chunks, total, i, nconstructed, files, wlog,
                    uiVars >>

\* mp3_to_pcm_s8_chunks returns: ffmpeg exited 0 with n bytes on its stdout
DecodeOk(n) ==
    /\ wpc = "decode"
    /\ pcm_chunks' = Chunks(Slice(src, 0, n), sample_rate * chunk_seconds)
    /\ decode' = IF n = 0 THEN "empty" ELSE "ok"
    /\ wpc' = "construct"
    /\ UNCHANGED << codec, before, callVars, stepVars, appVars, sample_rate, chunk_seconds,
                    total, i, e, nconstructed, files, wlog, uiVars >>

\* mp3_to_pcm_s8_chunks raises: ffmpeg exited nonzero
DecodeFail ==
    /\ wpc = "decode"
    /\ decode' = "failed"
    /\ e' = "ffmpeg failed to decode the audio."
    /\ wpc' = "except"
    /\ UNCHANGED << codec, before, callVars, stepVars, appVars, sample_rate, chunk_seconds,
                    pcm_chunks, total, i, nconstructed, files, wlog, uiVars >>

\* total = len(pcm_chunks); codec = DFPWMCodec(newdfpwm=True)
Construct ==
    /\ wpc = "construct"
    /\ total' = Len(pcm_chunks)
    /\ codec' = PostInit(TRUE)
    /\ before' = PostInit(TRUE)
    /\ nconstructed' = nconstructed + 1
    /\ wpc' = "for"
    /\ UNCHANGED << callVars, stepVars, appVars, sample_rate, chunk_seconds, decode,
                    pcm_chunks, i, e, files, wlog, uiVars >>

\* the next pass of the loop: dfpwm = codec.compress_pcm_s8_to_dfpwm(pcm)
EncodeChunk ==
    /\ wpc = "for"
    /\ i < total
    /\ i' = i + 1
    /\ Call(pcm_chunks[i + 1])
    /\ wpc' = "write"
    /\ UNCHANGED << src, pos, outs, ragged, ncalls, stepVars, appVars, sample_rate,
                    chunk_seconds, decode, pcm_chunks, total, e, nconstructed,
                    files, wlog, uiVars >>

\* the file of chunk n holding data
FileWritten(n, data) ==
    [ k \in (DOMAIN files) \cup {n} |-> IF k = n THEN data ELSE files[k] ]

\* write_bytes(out_dir / f"{i}.dfpwm", dfpwm) succeeds
WriteChunk ==
    /\ wpc = "write"
    /\ files' = FileWritten(i, dfpwm)
    /\ wlog' = Append(wlog, i)
    /\ wpc' = "progress"
    /\ UNCHANGED << codec, before, callVars, stepVars, appVars, sample_rate, chunk_seconds,
                    decode, pcm_chunks, total, i, e, nconstructed, uiVars >>

\* write_bytes raises: in path.open, leaving no file, or in f.write, leaving
\* a file that holds the first written bytes of dfpwm
WriteFail(opened, written) ==
    /\ wpc = "write"
    /\ files' = IF opened THEN FileWritten(i, SubSeq(dfpwm, 1, written)) ELSE files
    /\ e' = "OSError"
    /\ wpc' = "except"
    /\ UNCHANGED << codec, before, callVars, stepVars, appVars, sample_rate, chunk_seconds,
                    decode, pcm_chunks, total, i, nconstructed, wlog, uiVars >>

\* pct = (i / total) * 100; the progress bar and the status line are asked to
\* show the chunk just written
Progress ==
    /\ wpc = "progress"
    /\ Ui(Callback("both", Status("Encoding chunk", i, total),
                   IF total # 0 THEN << i * 100, total >> ELSE << 100, 1 >>))
    /\ wpc' = "for"
    /\ UNCHANGED << codec, before, callVars, stepVars, appVars, sample_rate, chunk_seconds,
                    decode, pcm_chunks, total, i, e, nconstructed, files, wlog,
                    status_var, progress_var, dialogs >>

\* the loop is over: the status line is asked to say Done
Done ==
    /\ wpc = "for"
    /\ i >= total
    /\ Ui(Callback("status", Status("Done! Saved to", 0, 0), << 0, 1 >>))
    /\ wpc' = "done"
    /\ UNCHANGED << codec, before, callVars, stepVars, appVars, sample_rate, chunk_seconds,
                    decode, pcm_chunks, total, i, e, nconstructed, files, wlog,
                    status_var, progress_var, dialogs >>

\* the progress bar is asked to show 100, and the worker returns
DoneProgress ==
    /\ wpc = "done"
    /\ Ui(Callback("progress", Status("", 0, 0), << 100, 1 >>))
    /\ wpc' = "end"
    /\ UNCHANGED << codec, before, callVars, stepVars, appVars, sample_rate, chunk_seconds,
                    decode, pcm_chunks, total, i, e, nconstructed, files, wlog,
                    status_var, progress_var, dialogs >>

\* except Exception as e: the event loop is asked to show the error dialog,
\* whose text the callback builds from e when it runs
ExceptDialog ==
    /\ wpc = "except"
    /\ Ui(Callback("showerror", Status("", 0, 0), << 0, 1 >>))
    /\ wpc' = "failed"
    /\ UNCHANGED << codec, before, callVars, stepVars, appVars, sample_rate, chunk_seconds,
                    decode, pcm_chunks, total, i, e, nconstructed, files, wlog,
                    status_var, progress_var, dialogs >>

\* the status line is asked to say Failed
ExceptStatus ==
    /\ wpc = "failed"
    /\ Ui(Callback("status", Status("Failed.", 0, 0), << 0, 1 >>))
    /\ wpc' = "unbind"
    /\ UNCHANGED << codec, before, callVars, stepVars, appVars, sample_rate, chunk_seconds,
                    decode, pcm_chunks, total, i, e, nconstructed, files, wlog,
                    status_var, progress_var, dialogs >>

\* the except clause ends: Python unbinds e, and the worker returns
ExceptEnd ==
    /\ wpc = "unbind"
    /\ e' = "unbound"
    /\ wpc' = "end"
    /\ UNCHANGED << codec, before, callVars, stepVars, appVars, sample_rate, chunk_seconds,
                    decode, pcm_chunks, total, i, nconstructed, files, wlog,
                    uiVars >>

\* the event loop runs the oldest callback: a status callback sets the status
\* line, a progress callback the bar, the loop's callback both; the
\* showerror callback reads e of the worker, which is the exception while
\* the except clause lasts, and raises NameError without showing the dialog
\* once the clause has ended
UiRun ==
    /\ uiq # << >>
    /\ uiq' = Tail(uiq)
    /\ status_var' = IF Head(uiq).kind \in {"status", "both"}
                     THEN Head(uiq).status ELSE status_var
    /\ progress_var' = IF Head(uiq).kind \in {"progress", "both"}
                       THEN Head(uiq).p ELSE progress_var
    /\ dialogs' = IF Head(uiq).kind = "showerror" /\ e # "unbound"
                  THEN Append(dialogs, e) ELSE dialogs
    /\ UNCHANGED << codec, before, callVars, stepVars, appVars, workerVars >>

NextRun ==
    \/ Mkdir
    \/ MkdirFail
    \/ \E n \in 0..MaxPcm : DecodeOk(n)
    \/ DecodeFail
    \/ Construct
    \/ EncodeChunk
    \/ WriteChunk
    \/ \E opened \in BOOLEAN : \E written \in 0..Len(dfpwm) : WriteFail(opened, written)
    \/ Progress
    \/ Done
    \/ DoneProgress
    \/ ExceptDialog
    \/ ExceptStatus
    \/ ExceptEnd
    \/ UiRun

SpecRun == InitRun /\ [][NextRun]_vars

\* the run is over: the worker has returned and every callback has run
RunEnded == wpc = "end" /\ uiq = << >>

(***************************************************************************)
(* SpecApp: the window. convert_clicked checks the path in the entry and   *)
(* starts a worker thread for it; a click while a worker runs starts       *)
(* another. Each worker has its own locals; the status line, the progress  *)
(* bar and the event loop's queue are the window's. The decoder and the    *)
(* disk do not fail here: SpecRun has the failures of a run.               *)
(***************************************************************************)
\* most clicks on Convert
MaxClicks == 2
\* most chunks the decoder returns for one run under SpecApp
MaxChunks == 1

\* the texts the entry holds at a click: none, a blank, a pair of quotes,
\* the paths a and b of two assets on the disk and the path c of none, bare,
\* between blanks and between quotes
Texts ==
    { << >>, << " " >>, << "\"", "\"" >>,
      << "a" >>, << " ", "a", " " >>, << "\"", "a", "\"" >>,
      << "b" >>, << "c" >>, << "\"", "c", "\"" >>, << "\"", " ", "c" >> }

\* str.strip(chars): s without its leading and trailing characters of chars
RECURSIVE LStrip(_, _)
LStrip(s, chars) ==
    IF s # << >> /\ Head(s) \in chars THEN LStrip(Tail(s), chars) ELSE s
RECURSIVE RStrip(_, _)
RStrip(s, chars) ==
    IF s # << >> /\ s[Len(s)] \in chars
    THEN RStrip(SubSeq(s, 1, Len(s) - 1), chars) ELSE s
Strip(s, chars) == RStrip(LStrip(s, chars), chars)

\* the whitespace of the texts
Whitespace == { " " }

\* self.mp3_path_var.get().strip().strip('"')
StripPath(text) == Strip(Strip(text, Whitespace), { "\"" })

\* os.path.exists(path): the assets on the disk
Exists(path) == path \in { << "a" >>, << "b" >> }

\* (a check of the path that does not look at the disk)
PathCheckNotEmpty(path) == IF path = << >> THEN "No file" ELSE "ok"

\* the two checks of convert_clicked: the title of the error it shows, or ok
PathCheck(path) ==
    IF path = << >> THEN "No file"
    ELSE IF ~Exists(path) THEN "File not found"
    ELSE "ok"

\* chunk_size of the runs of SpecApp: sample_rate 4 by chunk_seconds 2
AppChunkSize == 4 * 2

\* the samples the decoder returns for the asset at path, n of them
Asset(path, n) == Slice(src, IF path = << "a" >> THEN 0 ELSE 1, n)

\* a worker thread just started for path: its locals
NewRun(path) ==
    [ path |-> path, wpc |-> "start", out_dir |-> FALSE, pcm_chunks |-> << >>,
      total |-> 0, codec |-> << >>, i |-> 0, dfpwm |-> << >>, enc |-> << >>,
      written |-> 0 ]

\* the decoded stream of SpecApp: a sample of 127, one of 0, then samples
\* of -128, repeated
AppSource == [ j \in 1..PatLen |-> IF j = 1 THEN 127 ELSE IF j = 2 THEN 0 ELSE 128 ]

InitApp ==
    /\ codec = PostInit(TRUE)
    /\ src = AppSource
    /\ pos = 0
    /\ before = codec
    /\ pcm = << >>
    /\ dfpwm = << >>
    /\ outs = << >>
    /\ ragged = FALSE
    /\ ncalls = 0
    /\ StepIdle
    /\ RunIdle
    /\ AppIdle

\* convert_clicked, the entry holding text (no third worker is started:
\* two at once are the most followed here)
ConvertClicked(text) ==
    /\ nclicks < MaxClicks
    /\ PathCheck(StripPath(text)) = "ok" => Len(runs) < 2
    /\ nclicks' = nclicks + 1
    /\ mp3_path' = StripPath(text)
    /\ \E checked \in { PathCheck(StripPath(text)) } :
          IF checked # "ok"
          THEN /\ dialogs' = Append(dialogs, checked)
               /\ UNCHANGED << runs, status_var, progress_var >>
          ELSE /\ progress_var' = << 0, 1 >>
               /\ status_var' = Status("Working...", 0, 0)
               /\ runs' = Append(runs, NewRun(StripPath(text)))
               /\ UNCHANGED dialogs
    /\ UNCHANGED << codec, before, callVars, stepVars, workerVars, uiq, twin >>

\* a step of worker r that changes its locals to next and hands the
\* callbacks fns to the event loop
WorkerStep(r, next, fns) ==
    /\ runs' = [ runs EXCEPT ![r] = next ]
    /\ uiq' = uiq \o fns
    /\ UNCHANGED << codec, before, callVars, stepVars, workerVars, status_var,
                    progress_var, dialogs, mp3_path, nclicks, twin >>

\* the worker up to its loop: safe_mkdir(out_dir); the status line is asked
\* to say Decoding; pcm_chunks = mp3_to_pcm_s8_chunks(...), the decoder
\* returning nchunks whole chunks; total = len(pcm_chunks);
\* codec = DFPWMCodec(newdfpwm=True)
W_Begin(r, nchunks) ==
    /\ runs[r].wpc = "start"
    /\ \E chunks \in { Chunks(Asset(runs[r].path, nchunks * AppChunkSize),
                               AppChunkSize) } :
          WorkerStep(r, [ runs[r] EXCEPT !.out_dir = TRUE,
                                          !.pcm_chunks = chunks,
                                          !.total = Len(chunks),
                                          !.codec = << PostInit(TRUE) >>,
                                          !.wpc = "for" ],
                     << Callback("status", Status("Decoding + splitting...", 0, 0),
                                 << 0, 1 >>) >>)

\* (every worker encoding with the codec of the first worker that has one)
CodecShared(r) == IF runs[1].codec # << >> THEN 1 ELSE r

\* the worker whose codec worker r encodes with: its own, codec being a
\* local of _convert_worker
CodecOwner(r) == r

\* dfpwm = codec.compress_pcm_s8_to_dfpwm(pcm), for the next chunk of worker r
W_Encode(r) ==
    /\ runs[r].wpc = "for"
    /\ runs[r].i < runs[r].total
    /\ \E res \in { Compress(runs[CodecOwner(r)].codec[1],
                             runs[r].pcm_chunks[runs[r].i + 1]) } :
          /\ runs' = [ q \in 1..Len(runs) |->
                         IF q = r
                         THEN [ runs[r] EXCEPT
                                  !.i = @ + 1,
                                  !.codec = IF CodecOwner(r) = r
                                            THEN << res.self >> ELSE @,
                                  !.dfpwm = res.out,
                                  !.enc = Append(@, res.out),
                                  !.wpc = "write" ]
                         ELSE IF q = CodecOwner(r)
                         THEN [ runs[q] EXCEPT !.codec = << res.self >> ]
                         ELSE runs[q] ]
          /\ UNCHANGED << codec, before, callVars, stepVars, workerVars, uiVars,
                          mp3_path, nclicks, twin >>

\* write_bytes(out_dir / f"{i}.dfpwm", dfpwm); the progress bar and the
\* status line are asked to show the chunk
W_Write(r) ==
    /\ runs[r].wpc = "write"
    /\ WorkerStep(r, [ runs[r] EXCEPT !.written = runs[r].i, !.wpc = "for" ],
                  << Callback("both",
                              Status("Encoding chunk", runs[r].i, runs[r].total),
                              << runs[r].i * 100, runs[r].total >>) >>)

\* the loop is over: the status line is asked to say Done, the progress bar
\* to show 100, and the worker returns
W_Done(r) ==
    /\ runs[r].wpc = "for"
    /\ runs[r].i >= runs[r].total
    /\ WorkerStep(r, [ runs[r] EXCEPT !.wpc = "end" ],
                  << Callback("status", Status("Done! Saved to", 0, 0), << 0, 1 >>),
                     Callback("progress", Status("", 0, 0), << 100, 1 >>) >>)

NextApp ==
    \/ \E text \in Texts : ConvertClicked(text)
    \/ \E r \in 1..Len(runs) : \E nchunks \in 0..MaxChunks : W_Begin(r, nchunks)
    \/ \E r \in 1..Len(runs) : W_Encode(r)
    \/ \E r \in 1..Len(runs) : W_Write(r)
    \/ \E r \in 1..Len(runs) : W_Done(r)
    \/ UiRun

SpecApp == InitApp /\ [][NextApp]_vars

(***************************************************************************)
(* SpecTwin: two codecs of one mode, constructed apart and called apart,   *)
(* the second given, call after call, the buffers the first was given.     *)
(***************************************************************************)
\* the lengths of the buffers: none, short of a group, a group, a group and
\* a sample, two groups
TwinLens == { 0, 7, 8, 9, 16 }

InitTwin ==
    /\ \E newdfpwm \in BOOLEAN :
          /\ codec = PostInit(newdfpwm)
          /\ twin = [ NoTwin EXCEPT !.codec = << PostInit(newdfpwm) >> ]
    /\ src \in Sources(Bytes)
    /\ pos = 0
    /\ before = codec
    /\ pcm = << >>
    /\ dfpwm = << >>
    /\ outs = << >>
    /\ ragged = FALSE
    /\ ncalls = 0
    /\ StepIdle
    /\ RunIdle
    /\ mp3_path = << >>
    /\ nclicks = 0
    /\ runs = << >>

\* a call on the first codec, on the next n bytes of the stream
EncodeFirst(n) ==
    /\ ncalls < MaxCalls
    /\ \E buf \in { Slice(src, pos, n) } : Call(buf)
    /\ ncalls' = ncalls + 1
    /\ pos' = pos + n
    /\ outs' = outs \o dfpwm'
    /\ ragged' = (ragged \/ Len(pcm) % 8 # 0)
    /\ twin' = [ twin EXCEPT !.fed = Append(@, pcm'), !.first = Append(@, dfpwm') ]
    /\ UNCHANGED << src, stepVars, workerVars, uiVars, mp3_path, nclicks, runs >>

\* (the method of the second codec working on the fields of the first)
SecondSelfShared == codec

\* the object the method of the second codec works on: the second codec
SecondSelf == twin.codec[1]

\* a call on the second codec, on the buffer the first was given at the
\* same place in the sequence
EncodeSecond ==
    /\ Len(twin.second) < Len(twin.fed)
    /\ \E r \in { Compress(SecondSelf, twin.fed[Len(twin.second) + 1]) } :
          twin' = [ twin EXCEPT !.codec = << r.self >>,
                                !.second = Append(@, r.out) ]
    /\ UNCHANGED << codec, before, callVars, stepVars, workerVars, uiVars,
                    mp3_path, nclicks, runs >>

NextTwin ==
    \/ \E n \in TwinLens : EncodeFirst(n)
    \/ EncodeSecond

SpecTwin == InitTwin /\ [][NextTwin]_vars

(***************************************************************************)
(* Claims                                                                  *)
(***************************************************************************)
\* the codec a constructor call of the mode of c leaves
Fresh(c) == PostInit(c.newdfpwm)

\* C1: continuity. When every call but the latest was given a whole number
\* of groups of 8 samples, the bytes the calls returned, concatenated, are
\* the bytes one call on a new codec returns for the concatenated buffers,
\* and both codecs end with the same fields.
C1_Continuity ==
    ~ragged =>
        LET one == Compress(Fresh(codec), Slice(src, 0, pos))
        IN  /\ outs = one.out
            /\ codec = one.self

\* 16 samples as 8 then 8 on one codec, the second 8 decided differently
\* than a new codec decides them
C1_Witness ==
    /\ ncalls = 2
    /\ ~ragged
    /\ pos = 16
    /\ Len(pcm) = 8
    /\ Len(outs) = 2
    /\ dfpwm # Compress(Fresh(codec), pcm).out

\* C2: length law. A call on L bytes returns exactly floor(L/8) bytes,
\* none for L < 8, whatever the state of the codec and the mode.
C2_LengthLaw ==
    /\ Len(dfpwm) = Len(pcm) \div 8
    /\ Len(pcm) < 8 => dfpwm = << >>

\* 16 bytes, two groups, given to a codec an earlier call has moved
C2_Witness ==
    /\ ncalls = 2
    /\ Len(pcm) = 16
    /\ Len(dfpwm) = 2
    /\ before # Fresh(codec)

\* the larger of x and the floor 8
Max8(x) == IF x < 8 THEN 8 ELSE x

\* C3 as stated: in current mode a context update leaves response at
\* max(old response, 8).
C3_OnlyClamped ==
    [][codec.newdfpwm => codec'.response = Max8(codec.response)]_vars

\* C3 amended: in current mode a context update moves response by one,
\* up when the bit repeats the last bit and response is not 1023, down
\* when it does not and response is not 0, and then clamps it to 8.
C3_SteppedThenClamped ==
    [][codec.newdfpwm =>
         codec'.response =
            Max8(IF codec'.lastbit = codec.lastbit
                 THEN (IF codec.response # 1023 THEN codec.response + 1
                       ELSE codec.response)
                 ELSE (IF codec.response # 0 THEN codec.response - 1
                       ELSE codec.response))]_vars

\* a current-mode codec whose response was stepped above the floor
C3_Witness == codec.newdfpwm /\ codec.response = 9 /\ codec.lastbit

\* C4: floor clamp. In current mode every state a context update leaves
\* has response >= 8.
C4_FloorClamp == [][codec.newdfpwm => codec'.response >= 8]_vars

\* a current-mode codec an update has left on the floor, the update
\* having stepped response down
C4_Witness ==
    /\ codec.newdfpwm
    /\ codec.response = 8
    /\ codec.level > 2
    /\ ~codec.lastbit

\* every byte of s is v
AllBytes(s, v) == \A j \in 1..Len(s) : s[j] = v

\* the steady state of a constant input: level at the input, every byte
\* returned 0xFF for 127 and 0x00 for -128
Steady ==
    /\ src[1] = 127 => (codec.level = 127 /\ AllBytes(dfpwm, 255))
    /\ src[1] = 128 => (codec.level = -128 /\ AllBytes(dfpwm, 0))

\* C5: extremes. On a new codec a constant input of 127 (of -128) reaches
\* a point after which level stays 127 (-128) and every byte returned is
\* 0xFF (0x00).
C5_Extremes == <>[]Steady

\* two bytes 0xFF returned by a codec settled at the ceiling
C5_Witness ==
    /\ src[1] = 127
    /\ before = Settled(codec.newdfpwm, TRUE)
    /\ codec = before
    /\ dfpwm = << 255, 255 >>

\* the sample a raw byte holds
Signed(byte) == ((byte + 128) % 256) - 128

\* C6: bit decision. The bit decided for a sample s is true exactly when
\* s > level, or s = level = 127; any other tie gives false, so a first
\* sample 0 on a new codec gives false.
C6_BitDecision ==
    l_idx > 0 =>
        LET s == Signed(l_b)
            level == before.level
        IN  /\ l_curbit <=> (s > level \/ (s = level /\ level = 127))
            /\ (s = level /\ level # 127) => ~l_curbit
            /\ (l_idx = 1 /\ s = 0 /\ before = Fresh(before)) => ~l_curbit

\* the tie at the ceiling, decided true
C6_Witness ==
    /\ l_idx > 0
    /\ before.level = 127
    /\ l_b = 127
    /\ l_curbit

\* bit j of x
BitAt(x, j) == (x \div (2 ^ j)) % 2

\* C7: bit packing. The byte appended for a group of 8 samples is in
\* 0..255 and has the bit decided for the j-th sample (j = 0..7) at bit j.
C7_BitPacking ==
    (pc \in {"while", "done"} /\ Len(l_out) > 0) =>
        LET byte == l_out[Len(l_out)]
        IN  /\ byte \in 0..255
            /\ \A j \in 0..7 : BitAt(byte, j) = (IF bits[j + 1] THEN 1 ELSE 0)

\* a second byte whose first-decided bit is set and last-decided bit is not
C7_Witness ==
    /\ pc = "while"
    /\ Len(l_out) = 2
    /\ bits[1]
    /\ ~bits[8]
    /\ l_out[2] % 2 = 1
    /\ l_out[2] < 128

\* the bytes two new codecs return for the two halves of 16 samples
Halves(s) ==
    Compress(Fresh(codec), SubSeq(s, 1, 8)).out
        \o Compress(Fresh(codec), SubSeq(s, 9, 16)).out

\* C8 as stated: for every 16-sample input, one call on a new codec and
\* the two halves on two new codecs return different bytes.
C8_AlwaysDiffers ==
    (ncalls = 1 /\ Len(pcm) = 16) => dfpwm # Halves(pcm)

\* C8 amended: the two can differ and only in the second byte: the first
\* bytes are equal for every 16-sample input, and for 16 samples of -3 the
\* second bytes differ.
C8_DiffersInSecondByte ==
    (ncalls = 1 /\ Len(pcm) = 16) =>
        /\ dfpwm[1] = Halves(pcm)[1]
        /\ AllBytes(pcm, 253) => dfpwm[2] # Halves(pcm)[2]

\* 16 samples of -3 encoded in one call
C8_Witness ==
    /\ ncalls = 1
    /\ Len(pcm) = 16
    /\ AllBytes(pcm, 253)
    /\ dfpwm # Halves(pcm)

\* the codec state left by chunks 1..k of the run, from the one codec
\* constructed before the first chunk
RECURSIVE CodecAfter(_, _)
CodecAfter(chunks, k) ==
    IF k = 0 THEN PostInit(TRUE)
    ELSE Compress(CodecAfter(chunks, k - 1), chunks[k]).self

\* C9: Session state carry and ordering. A conversion run constructs one
\* codec, before the first chunk is encoded, and constructs no other; the
\* chunk files are written in the order 1, 2, ..., each file k before chunk
\* k + 1 is encoded (when chunk i has just been encoded the files written
\* are exactly 1..i-1, and otherwise exactly the chunks encoded so far have
\* been written, but for a chunk whose write failed); and every file k
\* written holds the encoding of chunk k from the codec state left by chunks
\* 1..k-1, the codec in hand being the state left by the chunks encoded.
C9_CarryAndOrder ==
    /\ nconstructed <= 1
    /\ i >= 1 => nconstructed = 1
    /\ wlog = [ k \in 1..Len(wlog) |-> k ]
    /\ wpc = "write" => Len(wlog) = i - 1
    /\ wpc \in {"for", "progress", "done"} => Len(wlog) = i
    /\ Len(wlog) <= i /\ i <= Len(wlog) + 1
    /\ \A k \in 1..Len(wlog) :
          /\ k \in DOMAIN files
          /\ files[k] = Compress(CodecAfter(pcm_chunks, k - 1), pcm_chunks[k]).out
    /\ nconstructed = 1 => codec = CodecAfter(pcm_chunks, i)

\* three chunks have been written, the second and the third from a codec
\* state that is not the fresh one, and the third file differs from the
\* encoding of its chunk by a fresh codec
C9_Witness ==
    /\ wlog = << 1, 2, 3 >>
    /\ CodecAfter(pcm_chunks, 1) # PostInit(TRUE)
    /\ CodecAfter(pcm_chunks, 2) # PostInit(TRUE)
    /\ files[3] # Compress(PostInit(TRUE), pcm_chunks[3]).out
    /\ files[3] # << >>

\* C10: Decode failure. When the decode step has failed, by a nonzero exit
\* of ffmpeg or by yielding no samples, no chunk is encoded and no chunk file
\* is written, the status line never says Done, and once the run is over the
\* status line says Failed and the error dialog has been shown.
C10_DecodeFailure ==
    decode \in {"failed", "empty"} =>
        /\ i = 0
        /\ files = << >>
        /\ status_var.text # "Done! Saved to"
        /\ \A k \in 1..Len(uiq) : uiq[k].status.text # "Done! Saved to"
        /\ RunEnded => status_var.text = "Failed." /\ dialogs # << >>

\* the write of chunk i has failed: the chunk is encoded, its write did not
\* complete, and the worker is past it
WriteFailed == i > Len(wlog) /\ wpc # "write"

\* C11: Sink failure. Once the write of chunk i has failed, no chunk after i
\* is encoded or written (i stays, the codec is the one chunk i left, no file
\* has an index above i), the files 1..i-1 written before are in place with
\* their contents, the status line never says Done, and once the run is over
\* the status line says Failed and the error dialog has been shown.
C11_SinkFailure ==
    WriteFailed =>
        /\ i = Len(wlog) + 1
        /\ codec = CodecAfter(pcm_chunks, i)
        /\ DOMAIN files \subseteq 1..i
        /\ \A k \in 1..(i - 1) :
              /\ k \in DOMAIN files
              /\ files[k] = Compress(CodecAfter(pcm_chunks, k - 1), pcm_chunks[k]).out
        /\ status_var.text # "Done! Saved to"
        /\ \A k \in 1..Len(uiq) : uiq[k].status.text # "Done! Saved to"
        /\ RunEnded => status_var.text = "Failed." /\ dialogs # << >>

\* what of C11 the code keeps whatever the order of the two threads: all of
\* it but the dialog
C11_SinkFailureButDialog ==
    WriteFailed =>
        /\ i = Len(wlog) + 1
        /\ codec = CodecAfter(pcm_chunks, i)
        /\ DOMAIN files \subseteq 1..i
        /\ \A k \in 1..(i - 1) :
              /\ k \in DOMAIN files
              /\ files[k] = Compress(CodecAfter(pcm_chunks, k - 1), pcm_chunks[k]).out
        /\ status_var.text # "Done! Saved to"
        /\ \A k \in 1..Len(uiq) : uiq[k].status.text # "Done! Saved to"
        /\ RunEnded => status_var.text = "Failed."

\* the step is a convert_clicked that found the path empty or not on the disk
BadClick == nclicks' = nclicks + 1 /\ (mp3_path' = << >> \/ ~Exists(mp3_path'))

\* C12: Missing input. A convert_clicked with an empty or nonexistent path
\* shows one error dialog and starts no worker: the workers and their locals
\* (directories made, chunks decoded, encoded and written) are as before,
\* nothing is handed to the event loop, and the status line and the
\* progress bar are left alone.
C12_MissingInput ==
    [][BadClick =>
          /\ Len(dialogs') = Len(dialogs) + 1
          /\ dialogs'[Len(dialogs')] \in { "No file", "File not found" }
          /\ SubSeq(dialogs', 1, Len(dialogs)) = dialogs
          /\ runs' = runs
          /\ UNCHANGED << workerVars, uiq, status_var, progress_var, codec >>]_vars

\* while a worker runs, a click on a path that is not empty and not on the
\* disk has shown its dialog and started nothing
C12_Witness ==
    /\ nclicks = 2
    /\ Len(runs) = 1
    /\ runs[1].wpc = "write"
    /\ mp3_path # << >>
    /\ ~Exists(mp3_path)
    /\ dialogs = << "File not found" >>

\* what a run has encoded alone, and one more chunk
EncodedAnd(sofar, chunk) ==
    CHOOSE res \in { [ self |-> nx.self, enc |-> Append(sofar.enc, nx.out) ] :
                       nx \in { Compress(sofar.self, chunk) } } : TRUE

\* what a run encodes alone for its chunks 1..k: the codec it ends with and
\* the bytes returned chunk by chunk, from one fresh codec
RECURSIVE EncodedAlone(_, _)
EncodedAlone(chunks, k) ==
    IF k = 0 THEN [ self |-> PostInit(TRUE), enc |-> << >> ]
    ELSE CHOOSE res \in { EncodedAnd(sofar, chunks[k]) :
                            sofar \in { EncodedAlone(chunks, k - 1) } } : TRUE

\* C13: Concurrent sessions. Whatever the interleaving of the workers, the
\* bytes each run has encoded for its chunks 1..i are those the run encodes
\* alone, chunk k from the state chunks 1..k-1 leave from a fresh codec, and
\* the codec of each run is in the state its own chunks 1..i leave.
C13_OwnCodec ==
    \A r \in 1..Len(runs) :
        \E alone \in { EncodedAlone(runs[r].pcm_chunks, runs[r].i) } :
            /\ runs[r].enc = alone.enc
            /\ runs[r].codec # << >> => runs[r].codec = << alone.self >>

\* two runs of different assets are in their loops at once, the first has
\* encoded its chunk and the second has not yet, and the second would
\* encode its chunk otherwise with the codec of the first
C13_Witness ==
    /\ Len(runs) = 2
    /\ runs[1].path # runs[2].path
    /\ runs[1].i = 1 /\ runs[1].total = 1 /\ runs[1].wpc = "write"
    /\ runs[2].i = 0 /\ runs[2].total = 1 /\ runs[2].wpc = "for"
    /\ Compress(runs[1].codec[1], runs[2].pcm_chunks[1]).out
          # Compress(runs[2].codec[1], runs[2].pcm_chunks[1]).out

\* the predictor state of a codec
PredictorState(c) == << c.level, c.response, c.lastbit >>

LevelStated(c, bit) ==
    LET target == IF bit THEN 127 ELSE -128
        precision == IF c.newdfpwm THEN 10 ELSE 8
        stepped == c.level
                   + ((c.response * (target - c.level) + 2 ^ (precision - 1))
                      \div (2 ^ precision))
    IN  IF stepped = c.level /\ c.level # target
        THEN (IF bit THEN stepped + 1 ELSE stepped - 1)
        ELSE stepped

\* C15: Level update. A context update with bit sets level to
\* level + floor((response * (target - level) + 2^(precision-1)) / 2^precision),
\* target being 127 for bit true and -128 for bit false and the division
\* rounding toward negative infinity, moved by +1 (bit true) or -1 (bit
\* false) when that is the old level and the level is not the target.
C15_LevelUpdate ==
    [][codec'.level = LevelStated(codec, codec'.lastbit)]_vars

\* a legacy codec that false bits, the last one included, have moved below
\* -3 by quotients of negative operands, response not being 0
C15_Witness ==
    /\ ~codec.newdfpwm
    /\ ~codec.lastbit
    /\ codec.level < -3
    /\ codec.level > -128
    /\ codec.response > 0

\* C16: Forced progress. A context update with bit true and level < 127
\* raises level, one with bit false and level > -128 lowers it, level stays
\* only when it is the target already, and level never moves away from the
\* target.
C16_ForcedProgress ==
    [][/\ (codec'.lastbit /\ codec.level < 127) => codec'.level > codec.level
       /\ (~codec'.lastbit /\ codec.level > -128) => codec'.level < codec.level
       /\ codec'.level = codec.level =>
             codec.level = (IF codec'.lastbit THEN 127 ELSE -128)
       /\ codec'.lastbit => codec'.level >= codec.level
       /\ ~codec'.lastbit => codec'.level <= codec.level]_vars

\* a legacy codec that a true bit has just moved to level 1 with response
\* left at 0: response was 0 or 1, the quotient was 0, and the update moved
\* level by the forced one, from 0
C16_Witness ==
    /\ ~codec.newdfpwm
    /\ codec.lastbit
    /\ codec.level = 1
    /\ codec.response = 0

\* response as C17 states a legacy context update with bit leaves it
ResponseStated(c, bit) ==
    LET respTarget == IF bit = c.lastbit THEN 255 ELSE 0
        respDelta == IF bit = c.lastbit THEN 7 ELSE 20
        stepped == c.response
                   + ((respDelta * (respTarget - c.response) + 128) \div 256)
    IN  IF stepped = c.response /\ c.response # respTarget
        THEN (IF bit = c.lastbit THEN stepped + 1 ELSE stepped - 1)
        ELSE stepped

\* C17: Legacy response adaptation. In legacy mode a context update with bit
\* sets response to response + floor((respDelta * (respTarget - response)
\* + 128) / 256), with (respTarget, respDelta) = (255, 7) when bit is the
\* last bit and (0, 20) otherwise, moved by +1 (bit the last bit) or -1
\* (otherwise) when that is the old response and response is not
\* respTarget; no floor clamp is applied.
C17_LegacyResponse ==
    [][~codec.newdfpwm =>
          codec'.response = ResponseStated(codec, codec'.lastbit)]_vars

\* a legacy codec that updates have brought back to response 0, away from
\* level 0
C17_Witness ==
    /\ ~codec.newdfpwm
    /\ codec.response = 0
    /\ codec.level # 0

\* C18: Level range. In every state reachable from a fresh codec, in either
\* mode, -128 <= level <= 127.
C18_LevelRange == -128 <= codec.level /\ codec.level <= 127

\* the top of the range reached in current mode, with response at its top
C18_Witness ==
    /\ codec.newdfpwm
    /\ codec.level = 127
    /\ codec.response = 1023

\* C19: Response range. In every state reachable from a fresh codec,
\* 0 <= response <= 2^RESP_PREC - 1: 255 in legacy mode, 1023 in current
\* mode.
C19_ResponseRange ==
    /\ 0 <= codec.response
    /\ codec.response <= (IF codec.newdfpwm THEN 1023 ELSE 255)

\* a legacy codec with response at its top, 255, that has left level 0
C19_Witness ==
    /\ ~codec.newdfpwm
    /\ codec.response = 255
    /\ codec.level # 0

\* the first 8 * floor(L / 8) samples of a buffer of L
WholeGroups(buf) == SubSeq(buf, 1, 8 * (Len(buf) \div 8))

\* C20: Dropped remainder leaves state untouched. After a call on a buffer
\* of L samples, the bytes returned and the codec's (level, response,
\* lastbit) are those a call on the first 8 * floor(L / 8) samples alone
\* gives from the state the call found, so that a later call starts from
\* the same state whatever the dropped samples were; for L < 8 the codec is
\* as the call found it.
C20_DroppedRemainder ==
    /\ \E whole \in { Compress(before, WholeGroups(pcm)) } :
          /\ dfpwm = whole.out
          /\ PredictorState(codec) = PredictorState(whole.self)
    /\ Len(pcm) < 8 => codec = before

\* a second call, on 15 samples, after a first of 7 that left the codec
\* fresh: the group of 8 moved the codec, and the 7 samples after it, fed
\* to the predictor, would have moved it further
C20_Witness ==
    /\ ncalls = 2
    /\ ragged
    /\ before = Fresh(codec)
    /\ Len(pcm) = 15
    /\ Len(dfpwm) = 1
    /\ codec # before
    /\ FeedRest(codec, pcm, 8) # codec

====
